---- MODULE Spec2Model ----
(***************************************************************************)
(* The balance ledger of the SplitFlow backend: the `balances` table held  *)
(* by the hosted row store, the BalanceCRUD data-access object             *)
(* (backend/app/crud/balances.py) and the /balances HTTP handlers          *)
(* (backend/app/api/balances.py).                                          *)
(*                                                                         *)
(* Every store statement (`.execute()`) is one atomic step.  A handler     *)
(* that issues two statements (lookup, then write) is two steps, and       *)
(* steps of different requests interleave: the code wraps nothing in a     *)
(* transaction and holds no lock, so any deployment with more than one     *)
(* server process runs the statements of two requests in any order.        *)
(*                                                                         *)
(* Identifiers reach the handlers as strings and are stored as UUIDs       *)
(* (schemas/balances.py).  One UUID has several spellings (upper case,     *)
(* braces, no hyphens); the store and uuid.UUID() parse them all, and      *)
(* str(uuid) gives back the canonical one only.                            *)
(*                                                                         *)
(* A select without .order() returns its rows in an order of the store's   *)
(* choice.  A read handler that issues two selects is two steps as well,   *)
(* and writes of other requests come between them.                         *)
(*                                                                         *)
(* The tables `group_members`, `settlements` and `users` with their CRUD   *)
(* objects and handlers follow the ledger, a statement a step.             *)
(***************************************************************************)
EXTENDS Integers, Sequences, FiniteSets, TLC

VARIABLES
    store,    \* the rows of table `balances`, most recently updated first
    nextId,   \* number of ids the store has assigned so far (in the table the
              \* requests of the run are about)
    procs,    \* per request slot: the request being served, or its response
    sent,     \* history of the sequential ledger: per triple, the sum created
    last,     \* history of the sequential ledger: the last write request, as sent
    out,          \* the response to the read request
    members,      \* the rows of table `group_members`, in insertion order
    settlements,  \* the rows of table `settlements`, in insertion order
    users         \* the rows of table `users`, in insertion order

vars == <<store, nextId, procs, sent, last, out, members, settlements, users>>

-----------------------------------------------------------------------------
(* Bounds of the model *)

MaxAmount == 1      \* request amounts range over 0 - 1 .. MaxAmount
MaxTotal == 2       \* a merge is explored while the merged amount is <= MaxTotal
MaxReadRows == 2    \* rows of the small stores the read requests are applied to
NumBulkUsers == 8   \* users of the bulk-loaded group
BulkExtra == 2      \* the bulk-loaded group has up to DefaultLimit + BulkExtra rows
MaxLimit == 2       \* page sizes of the list requests: 1..MaxLimit and the default
MaxOffset == 1      \* page offsets of the list requests: 0..MaxOffset
MaxPermuted == 3    \* results of an unordered select up to this length come in every order
MaxBetween == 2     \* statements of other requests served between the two selects of a read

Procs == {"p1", "p2"}
Groups == {"g1", "g2"}
Users == {1, 2, 3}
Spellings == {"canon", "alt"}
AltUsers == {1}     \* the users whose id the clients also send in a second spelling

\* The inputs of the concurrent runs and of the sequential runs.
ConcGroups == {"g1"}
ConcUsers == {1, 2}
SeqGroups == {"g1", "g2"}
SeqUsers == {1, 2}
Amounts == (0 - 1)..MaxAmount

\* The ids the store hands out, in this order, in the concurrent and the
\* sequential runs; an id is never handed out twice.
BalanceIds == {1, 2}

\* The strings a client can send for a user id.
UserStrings(us) == {s \in us \X Spellings : s[2] = "canon" \/ s[1] \in AltUsers}

\* uuid.UUID(s): every spelling parses to the same UUID.
Parse(s) == s[1]

\* str(uuid): the canonical spelling.
Str(u) == <<u, "canon">>

NoStr == <<0, "canon">>
NoRow == [id |-> 0, amount |-> 0]
NoRead == [op |-> "none"]

-----------------------------------------------------------------------------
(* The row store: table `balances` behind the supabase client *)

Range(s) == {s[i] : i \in 1..Len(s)}

Row(id, g, uf, ut, amt) ==
    [id |-> id, group_id |-> g, user_from |-> uf, user_to |-> ut, amount |-> amt]

RowsWithId(s, id) == {r \in Range(s) : r.id = id}

\* select('*').eq('id', balance_id)
get_balance_by_id_rows(s, id) == RowsWithId(s, id)

\* A variant of the lookup that is not the code's: the pair in either direction.
get_balance_between_users_rows_either(s, g, uf, ut) ==
    {r \in Range(s) : /\ r.group_id = g
                      /\ {r.user_from, r.user_to} = {Parse(uf), Parse(ut)}}

\* select('*').eq('group_id', g).eq('user_from', uf).eq('user_to', ut):
\* the uuid columns compare by value, whatever the spelling of the filter.
get_balance_between_users_rows(s, g, uf, ut) ==
    {r \in Range(s) : r.group_id = g /\ r.user_from = Parse(uf) /\ r.user_to = Parse(ut)}

Without(s, id) ==
    LET Other(r) == r.id # id IN SelectSeq(s, Other)

\* insert({...}): the store assigns the id and last_updated (now: the row is
\* the most recently updated one).
InsertRow(s, id, g, uf, ut, amt) ==
    <<Row(id, g, uf, ut, amt)>> \o s

\* Variants of the update that are not the code's: the amount is added to the
\* stored one, and a row is made when none has the id.
UpdateAmountAdd(s, id, amt, refresh) ==
    [i \in 1..Len(s) |-> IF s[i].id = id THEN [s[i] EXCEPT !.amount = @ + amt] ELSE s[i]]

UpdateAmountUpsert(s, id, amt, refresh) ==
    IF RowsWithId(s, id) = {}
    THEN <<Row(id, "g1", 1, 2, amt)>> \o s
    ELSE [i \in 1..Len(s) |-> IF s[i].id = id THEN [s[i] EXCEPT !.amount = amt] ELSE s[i]]

\* update({'amount': ...}).eq('id', id).  The statement names the amount only;
\* whether the store also refreshes last_updated is the store's business
\* (refresh: the row becomes the most recently updated one).
UpdateAmount(s, id, amt, refresh) ==
    IF refresh
    THEN [i \in 1..Cardinality(RowsWithId(s, id)) |->
             [(CHOOSE r \in RowsWithId(s, id) : TRUE) EXCEPT !.amount = amt]]
         \o Without(s, id)
    ELSE [i \in 1..Len(s) |-> IF s[i].id = id THEN [s[i] EXCEPT !.amount = amt] ELSE s[i]]

\* A variant of the delete that is not the code's: the row is kept.
DeleteRowKept(s, id) == s

\* delete().eq('id', id)
DeleteRow(s, id) == Without(s, id)

-----------------------------------------------------------------------------
(* BalanceCRUD: the write path *)

Snapshot(r) == [id |-> r.id, amount |-> r.amount]

\* A variant of get_balance_by_id that is not the code's: a balance for any id.
get_balance_by_id_found(s, id, fail) == {[id |-> id, amount |-> 1]}

\* get_balance_by_id: data[0] if any, None if none or if the select raises.
get_balance_by_id(s, id, fail) ==
    IF fail \/ get_balance_by_id_rows(s, id) = {} THEN {NoRow}
    ELSE {Snapshot(r) : r \in get_balance_by_id_rows(s, id)}

\* get_balance_between_users: data[0] of an unordered select (any matching
\* row), None if none matches or if the select raises.
get_balance_between_users(s, g, uf, ut, fail) ==
    IF fail \/ get_balance_between_users_rows(s, g, uf, ut) = {} THEN {NoRow}
    ELSE {Snapshot(r) : r \in get_balance_between_users_rows(s, g, uf, ut)}

\* Variants of NewAmount that are not the code's: the new amount alone, and
\* the old amount alone.
NewAmountReplace(existing, amount) == amount

NewAmountKeep(existing, amount) == existing.amount

\* create_or_update_balance, line 22: new_amount = existing_balance.amount + amount
NewAmount(existing, amount) == existing.amount + amount

-----------------------------------------------------------------------------
(* The /balances handlers: validation *)

\* Variants of the checks that are not the code's: zero admitted, no
\* self-debt check, no amount check.
AmountRejectedBelowZero(amount) == amount < 0

SelfDebtRejectedNever(uf, ut) == FALSE

AmountRejectedNever(amount) == FALSE

\* POST / and PUT /{id}/amount: `if amount <= 0` -> 400
AmountRejected(amount) == amount <= 0

\* POST /: `if user_from == user_to` -> 400, on the request's strings
SelfDebtRejected(uf, ut) == uf = ut

-----------------------------------------------------------------------------
(* Request slots *)

\* A slot is idle, holds a request between its lookup and its write (the
\* statement the handler is about to send, identifiers as the store reads
\* them), or holds the answer to the last request served in it.
Idle ==
    [pc |-> "idle", op |-> "none", group_id |-> "none", user_from |-> 0,
     user_to |-> 0, amount |-> 0, balance_id |-> 0, existing |-> NoRow,
     status |-> 0]

Pending(op, g, uf, ut, amt, id, e) ==
    [Idle EXCEPT !.pc = "write", !.op = op, !.group_id = g, !.user_from = Parse(uf),
                 !.user_to = Parse(ut), !.amount = amt, !.balance_id = id, !.existing = e]

\* The answer: the status code and, with 201 and 200, the balance in the body.
Answer(op, status, id, amt) ==
    [Idle EXCEPT !.pc = "done", !.op = op, !.status = status, !.balance_id = id, !.amount = amt]

Failed(op, status) == Answer(op, status, 0, 0)

Free(p) == procs[p].pc # "write"

-----------------------------------------------------------------------------
(* POST /balances: api create_or_update_balance + crud create_or_update_balance *)

\* The handler up to the end of the lookup: validation (no store access on
\* rejection), then get_balance_between_users.
PostStart(p, g, uf, ut, amt, fail) ==
    /\ Free(p)
    /\ IF AmountRejected(amt) \/ SelfDebtRejected(uf, ut)
       THEN procs' = [procs EXCEPT ![p] = Failed("post", 400)]
       ELSE \E e \in get_balance_between_users(store, g, uf, ut, fail) :
               /\ NewAmount(e, amt) <= MaxTotal
               /\ procs' = [procs EXCEPT ![p] = Pending("post", g, uf, ut, amt, 0, e)]
    /\ UNCHANGED <<store, nextId>>

\* A variant of PostWrite that is not the code's: a statement that fails has
\* been applied all the same.
PostWriteApplied(p, fail, refresh) ==
    LET r == procs[p] IN
    /\ r.pc = "write" /\ r.op = "post"
    /\ IF r.existing # NoRow
       THEN /\ store' = UpdateAmount(store, r.existing.id, NewAmount(r.existing, r.amount), refresh)
            /\ procs' = [procs EXCEPT ![p] =
                  IF ~fail /\ RowsWithId(store, r.existing.id) # {}
                  THEN Answer("post", 201, r.existing.id, NewAmount(r.existing, r.amount))
                  ELSE Failed("post", 500)]
            /\ UNCHANGED nextId
       ELSE /\ nextId + 1 \in BalanceIds
            /\ store' = InsertRow(store, nextId + 1, r.group_id, r.user_from, r.user_to, r.amount)
            /\ nextId' = nextId + 1
            /\ procs' = [procs EXCEPT ![p] =
                  IF fail THEN Failed("post", 500)
                  ELSE Answer("post", 201, nextId + 1, r.amount)]

\* The write of create_or_update_balance and the handler's answer: update by
\* id when the lookup found a row, insert otherwise; no data or an exception
\* gives None, which the handler answers with 500.
PostWrite(p, fail, refresh) ==
    LET r == procs[p] IN
    /\ r.pc = "write" /\ r.op = "post"
    /\ IF fail
       THEN /\ procs' = [procs EXCEPT ![p] = Failed("post", 500)]
            /\ UNCHANGED <<store, nextId>>
       ELSE IF r.existing # NoRow
       THEN /\ store' = UpdateAmount(store, r.existing.id, NewAmount(r.existing, r.amount), refresh)
            /\ procs' = [procs EXCEPT ![p] =
                  IF RowsWithId(store, r.existing.id) # {}
                  THEN Answer("post", 201, r.existing.id, NewAmount(r.existing, r.amount))
                  ELSE Failed("post", 500)]
            /\ UNCHANGED nextId
       ELSE /\ nextId + 1 \in BalanceIds
            /\ store' = InsertRow(store, nextId + 1, r.group_id, r.user_from, r.user_to, r.amount)
            /\ nextId' = nextId + 1
            /\ procs' = [procs EXCEPT ![p] = Answer("post", 201, nextId + 1, r.amount)]

-----------------------------------------------------------------------------
(* PUT /balances/{id}/amount: api update_balance_amount + crud update_balance_amount *)

PutStart(p, id, amt, fail) ==
    /\ Free(p)
    /\ IF AmountRejected(amt)
       THEN procs' = [procs EXCEPT ![p] = Failed("put", 400)]
       ELSE procs' = [procs EXCEPT ![p] =
               IF get_balance_by_id(store, id, fail) = {NoRow}
               THEN Failed("put", 404)
               ELSE Pending("put", "none", NoStr, NoStr, amt, id, NoRow)]
    /\ UNCHANGED <<store, nextId>>

PutWrite(p, fail, refresh) ==
    LET r == procs[p] IN
    /\ r.pc = "write" /\ r.op = "put"
    /\ IF fail
       THEN /\ procs' = [procs EXCEPT ![p] = Failed("put", 500)]
            /\ UNCHANGED store
       ELSE /\ store' = UpdateAmount(store, r.balance_id, r.amount, refresh)
            /\ procs' = [procs EXCEPT ![p] =
                  IF RowsWithId(store, r.balance_id) # {}
                  THEN Answer("put", 200, r.balance_id, r.amount)
                  ELSE Failed("put", 500)]
    /\ UNCHANGED nextId

-----------------------------------------------------------------------------
(* DELETE /balances/{id}/settle: api settle_balance + crud settle_balance *)

SettleStart(p, id, fail) ==
    /\ Free(p)
    /\ procs' = [procs EXCEPT ![p] =
          IF get_balance_by_id(store, id, fail) = {NoRow}
          THEN Failed("settle", 404)
          ELSE Pending("settle", "none", NoStr, NoStr, 0, id, NoRow)]
    /\ UNCHANGED <<store, nextId>>

\* settle_balance returns len(result.data) > 0; False (nothing deleted, or an
\* exception) is answered with 500.
SettleWrite(p, fail) ==
    LET r == procs[p] IN
    /\ r.pc = "write" /\ r.op = "settle"
    /\ IF fail
       THEN /\ procs' = [procs EXCEPT ![p] = Failed("settle", 500)]
            /\ UNCHANGED store
       ELSE /\ store' = DeleteRow(store, r.balance_id)
            /\ procs' = [procs EXCEPT ![p] =
                  IF RowsWithId(store, r.balance_id) # {}
                  THEN Answer("settle", 204, 0, 0)
                  ELSE Failed("settle", 500)]
    /\ UNCHANGED nextId

-----------------------------------------------------------------------------
(* BalanceCRUD: the read path *)

\* select('*') with the eq filters given as sets of admitted values and
\* .order('last_updated', desc=True): the rows in the order the store holds them.
OrderedRows(s, gs, ufs, uts) ==
    LET Match(r) == r.group_id \in gs /\ r.user_from \in ufs /\ r.user_to \in uts
    IN  SelectSeq(s, Match)

Reverse(rows) == [i \in 1..Len(rows) |-> rows[Len(rows) + 1 - i]]

RECURSIVE Orders(_)
\* Every order of the rows of a result.
Orders(rows) ==
    IF Len(rows) <= 1 THEN {rows}
    ELSE UNION {{<<rows[i]>> \o rest :
                   rest \in Orders(SubSeq(rows, 1, i - 1) \o SubSeq(rows, i + 1, Len(rows)))} :
                i \in 1..Len(rows)}

\* The orders a select without .order() may return its rows in: the order is
\* the store's choice.  Every order of a result of up to MaxPermuted rows; of
\* a longer result the order of last_updated and the order of insertion.
SelectOrders(rows) ==
    IF Len(rows) <= MaxPermuted THEN Orders(rows) ELSE {rows, Reverse(rows)}

\* select('*') with the eq filters given as sets of admitted values and no
\* .order(): the results the statement may return.
SelectRows(s, gs, ufs, uts) == SelectOrders(OrderedRows(s, gs, ufs, uts))

AnyUser(s) == {r.user_from : r \in Range(s)} \cup {r.user_to : r \in Range(s)}

\* get_group_balances: eq group_id, order last_updated desc, range(offset, offset+limit-1)
get_group_balances(s, g, limit, offset, fail) ==
    IF fail THEN <<>>
    ELSE LET rows == OrderedRows(s, {g}, AnyUser(s), AnyUser(s))
             stop == IF offset + limit < Len(rows) THEN offset + limit ELSE Len(rows)
         IN  SubSeq(rows, offset + 1, stop)

\* Variants of get_user_balances_in_group that are not the code's: a failed
\* read goes unnoticed, and the rows the user owes only.
get_user_balances_in_group_unguarded(s1, s2, g, u, fail) ==
    {owes \o owed : owes \in SelectRows(s1, {g}, {Parse(u)}, AnyUser(s1)),
                    owed \in SelectRows(s2, {g}, AnyUser(s2), {Parse(u)})}

get_user_balances_in_group_owes(s1, s2, g, u, fail) ==
    IF fail THEN {<<>>} ELSE SelectRows(s1, {g}, {Parse(u)}, AnyUser(s1))

\* get_user_balances_in_group: the rows the user owes, read from the store as
\* it is at the first select (s1), then the rows the user is owed, read from
\* the store as it is at the second select (s2).  The lists it may return.
get_user_balances_in_group(s1, s2, g, u, fail) ==
    IF fail THEN {<<>>}
    ELSE {owes \o owed : owes \in SelectRows(s1, {g}, {Parse(u)}, AnyUser(s1)),
                         owed \in SelectRows(s2, {g}, AnyUser(s2), {Parse(u)})}

\* What one pass of the loop of get_user_total_balance adds to total:
\* str(balance.user_to) == user_id adds, elif str(balance.user_from) == user_id subtracts
TotalStep(b, u) ==
    IF Str(b.user_to) = u THEN b.amount
    ELSE IF Str(b.user_from) = u THEN 0 - b.amount
    ELSE 0

RECURSIVE TotalFold(_, _, _, _)
\* The loop over balances[lo..hi], from Decimal('0')
TotalFold(balances, u, lo, hi) ==
    IF lo > hi THEN 0
    ELSE IF lo = hi THEN TotalStep(balances[lo], u)
    ELSE TotalFold(balances, u, lo, (lo + hi) \div 2)
         + TotalFold(balances, u, ((lo + hi) \div 2) + 1, hi)

\* get_user_total_balance: the totals it may return
get_user_total_balance(s1, s2, g, u, fail) ==
    {TotalFold(balances, u, 1, Len(balances)) :
        balances \in get_user_balances_in_group(s1, s2, g, u, fail)}

\* What one pass of the loop of get_group_balance_summary does to
\* user_net_balances[k]: -= amount for the debtor's key, += amount for the
\* creditor's key
SummaryStep(b, k) ==
    (IF Str(b.user_from) = k THEN 0 - b.amount ELSE 0)
    + (IF Str(b.user_to) = k THEN b.amount ELSE 0)

RECURSIVE SummaryFold(_, _, _, _)
\* user_net_balances[k] after the loop over balances[lo..hi], from Decimal('0')
SummaryFold(balances, k, lo, hi) ==
    IF lo > hi THEN 0
    ELSE IF lo = hi THEN SummaryStep(balances[lo], k)
    ELSE SummaryFold(balances, k, lo, (lo + hi) \div 2)
         + SummaryFold(balances, k, ((lo + hi) \div 2) + 1, hi)

\* The keys of user_net_balances: str(user_from) and str(user_to) of every
\* row the loop has seen
SummaryKeys(balances) ==
    {Str(balances[i].user_from) : i \in 1..Len(balances)}
    \cup {Str(balances[i].user_to) : i \in 1..Len(balances)}

\* get_group_balances(group_id) of the summary: limit=50, offset=0
DefaultLimit == 50

get_group_balance_summary(s, g, fail) ==
    LET balances == get_group_balances(s, g, DefaultLimit, 0, fail) IN
    [group_id |-> g,
     total_balances |-> Len(balances),
     user_net_balances |-> [k \in SummaryKeys(balances) |-> SummaryFold(balances, k, 1, Len(balances))],
     raw_balances |-> balances]

AnyGroup(s) == {r.group_id : r \in Range(s)}

\* .range(offset, offset + limit - 1)
Page(rows, limit, offset) ==
    SubSeq(rows, offset + 1, IF offset + limit < Len(rows) THEN offset + limit ELSE Len(rows))

\* The place of the row of this id in the order of last_updated, latest first.
Pos(s, id) == CHOOSE i \in 1..Len(s) : s[i].id = id

\* last_updated of a row fetched by the first select, as a logical time: the
\* rows of the store s1 count 1..Len(s1) from the one updated longest ago.
StampFirst(s1, id) == Len(s1) + 1 - Pos(s1, id)

\* last_updated of a row fetched by the second select from the store s2: a
\* row inserted or refreshed since the first select (touched) is later than
\* every row of s1, the other rows are as they were in s1.
StampSecond(s1, s2, touched, id) ==
    IF id \in touched THEN Len(s1) + Len(s2) + 1 - Pos(s2, id) ELSE StampFirst(s1, id)

\* A variant of the sort that is not the code's: the list is left as it is.
SortByLastUpdatedNone(balances, lo, hi) == balances

RECURSIVE SortByLastUpdated(_, _, _)
\* balances.sort(key=lambda x: x.last_updated or x.id, reverse=True): the
\* members of balances whose last_updated is in lo..hi, latest first, members
\* of one last_updated in the order they had (the sort is stable).
SortByLastUpdated(balances, lo, hi) ==
    IF lo > hi THEN <<>>
    ELSE IF lo = hi
    THEN LET At(b) == b.last_updated = lo IN SelectSeq(balances, At)
    ELSE SortByLastUpdated(balances, ((lo + hi) \div 2) + 1, hi)
         \o SortByLastUpdated(balances, lo, (lo + hi) \div 2)

\* The two half-queries of get_all_user_balances: a page of the rows the user
\* owes and a page of the rows the user is owed, each latest first.
OwesPage(s, u, limit, offset) ==
    Page(OrderedRows(s, AnyGroup(s), {Parse(u)}, AnyUser(s)), limit, offset)

OwedPage(s, u, limit, offset) ==
    Page(OrderedRows(s, AnyGroup(s), AnyUser(s), {Parse(u)}), limit, offset)

\* The list `balances` of get_all_user_balances after balances.sort(...):
\* the page read from s1 and the page read from s2 joined and sorted, before
\* the cut.
MergedUserBalances(s1, s2, touched, u, limit, offset) ==
    LET owes == OwesPage(s1, u, limit, offset)
        owed == OwedPage(s2, u, limit, offset)
        balances ==
            [i \in 1..Len(owes) |->
                [row |-> owes[i], last_updated |-> StampFirst(s1, owes[i].id)]]
            \o [i \in 1..Len(owed) |->
                [row |-> owed[i], last_updated |-> StampSecond(s1, s2, touched, owed[i].id)]]
        sorted == SortByLastUpdated(balances, 1, Len(s1) + Len(s2))
    IN  [i \in 1..Len(sorted) |-> sorted[i].row]

\* A variant of the cut that is not the code's: the end of the list is kept.
CutAtLimitTail(balances, limit) ==
    SubSeq(balances, IF limit < Len(balances) THEN Len(balances) - limit + 1 ELSE 1,
           Len(balances))

\* balances[:limit]
CutAtLimit(balances, limit) ==
    SubSeq(balances, 1, IF limit < Len(balances) THEN limit ELSE Len(balances))

\* get_all_user_balances: the two pages joined, sorted, cut at limit
get_all_user_balances(s1, s2, touched, u, limit, offset, fail) ==
    IF fail THEN <<>>
    ELSE CutAtLimit(MergedUserBalances(s1, s2, touched, u, limit, offset), limit)

\* A variant of the status that is not the code's: a zero net counts as owed.
TotalStatusNonNeg(total_balance) ==
    IF total_balance >= 0 THEN "owed_money" ELSE "owes_money"

\* "owed_money" if total_balance > 0 else "owes_money" if total_balance < 0 else "settled"
TotalStatus(total_balance) ==
    IF total_balance > 0 THEN "owed_money"
    ELSE IF total_balance < 0 THEN "owes_money"
    ELSE "settled"

\* GET /balances/{balance_id}: 404 `if not balance`
GetBalance(s, id, fail) ==
    IF get_balance_by_id(s, id, fail) = {NoRow} THEN 404 ELSE 200

\* GET /balances/between: 404 `if not balance`
GetBalanceBetween(s, g, uf, ut, fail) ==
    IF get_balance_between_users(s, g, uf, ut, fail) = {NoRow} THEN 404 ELSE 200

-----------------------------------------------------------------------------
(* Concurrent requests against one store, any statement of which may fail *)

Init ==
    /\ store = <<>>
    /\ nextId = 0
    /\ procs = [p \in Procs |-> Idle]
    /\ sent = <<>>
    /\ last = NoRead
    /\ out = NoRead
    /\ members = <<>>
    /\ settlements = <<>>
    /\ users = <<>>

Post(p) ==
    \/ /\ \E g \in ConcGroups, uf \in UserStrings(ConcUsers), ut \in UserStrings(ConcUsers),
             amt \in Amounts, fail \in BOOLEAN : PostStart(p, g, uf, ut, amt, fail)
       /\ UNCHANGED <<sent, last, out, members, settlements, users>>
    \/ /\ \E fail \in BOOLEAN, refresh \in BOOLEAN : PostWrite(p, fail, refresh)
       /\ UNCHANGED <<sent, last, out, members, settlements, users>>

Put(p) ==
    \/ /\ \E id \in BalanceIds, amt \in Amounts, fail \in BOOLEAN : PutStart(p, id, amt, fail)
       /\ UNCHANGED <<sent, last, out, members, settlements, users>>
    \/ /\ \E fail \in BOOLEAN, refresh \in BOOLEAN : PutWrite(p, fail, refresh)
       /\ UNCHANGED <<sent, last, out, members, settlements, users>>

Settle(p) ==
    \/ /\ \E id \in BalanceIds, fail \in BOOLEAN : SettleStart(p, id, fail)
       /\ UNCHANGED <<sent, last, out, members, settlements, users>>
    \/ /\ \E fail \in BOOLEAN : SettleWrite(p, fail)
       /\ UNCHANGED <<sent, last, out, members, settlements, users>>

Next == \E p \in Procs : Post(p) \/ Put(p) \/ Settle(p)

Spec == Init /\ [][Next]_vars

-----------------------------------------------------------------------------
(* Requests served strictly one after another, no statement failing.      *)
(* sent[t] is the sum of the amounts of the creates answered 201 for the   *)
(* triple t since t last had no edge; Amended once an amendment touched t. *)

Amended == 0 - 1
SeqTriples == SeqGroups \X SeqUsers \X SeqUsers
TripleOf(r) == <<r.group_id, r.user_from, r.user_to>>
TriplesOfId(s, id) == {TripleOf(r) : r \in RowsWithId(s, id)}

SeqInit ==
    /\ store = <<>>
    /\ nextId = 0
    /\ procs = [p \in Procs |-> Idle]
    /\ sent = [t \in SeqTriples |-> 0]
    /\ last = NoRead
    /\ out = NoRead
    /\ members = <<>>
    /\ settlements = <<>>
    /\ users = <<>>

PostRequest(g, uf, ut, amt) ==
    [op |-> "post", group_id |-> g, user_from |-> uf, user_to |-> ut, amount |-> amt]
PutRequest(id, amt) == [op |-> "put", balance_id |-> id, amount |-> amt]
SettleRequest(id) == [op |-> "settle", balance_id |-> id]

SeqPostStart ==
    /\ \E g \in SeqGroups, uf \in UserStrings(SeqUsers), ut \in UserStrings(SeqUsers),
          amt \in Amounts :
          PostStart("p1", g, uf, ut, amt, FALSE) /\ last' = PostRequest(g, uf, ut, amt)
    /\ UNCHANGED <<sent, out, members, settlements, users>>

SeqPostWrite ==
    /\ \E refresh \in BOOLEAN : PostWrite("p1", FALSE, refresh)
    /\ sent' = IF procs'["p1"].status = 201
               THEN [sent EXCEPT ![TripleOf(procs["p1"])] = IF @ = Amended THEN @ ELSE @ + procs["p1"].amount]
               ELSE sent
    /\ UNCHANGED <<last, out, members, settlements, users>>

SeqPutStart ==
    /\ \E id \in BalanceIds, amt \in Amounts :
          PutStart("p1", id, amt, FALSE) /\ last' = PutRequest(id, amt)
    /\ UNCHANGED <<sent, out, members, settlements, users>>

SeqPutWrite ==
    /\ \E refresh \in BOOLEAN : PutWrite("p1", FALSE, refresh)
    /\ sent' = [t \in SeqTriples |->
                  IF t \in TriplesOfId(store, procs["p1"].balance_id) THEN Amended ELSE sent[t]]
    /\ UNCHANGED <<last, out, members, settlements, users>>

SeqSettleStart ==
    /\ \E id \in BalanceIds : SettleStart("p1", id, FALSE) /\ last' = SettleRequest(id)
    /\ UNCHANGED <<sent, out, members, settlements, users>>

SeqSettleWrite ==
    /\ SettleWrite("p1", FALSE)
    /\ sent' = [t \in SeqTriples |->
                  IF t \in TriplesOfId(store, procs["p1"].balance_id) THEN 0 ELSE sent[t]]
    /\ UNCHANGED <<last, out, members, settlements, users>>

SeqNext ==
    \/ SeqPostStart \/ SeqPostWrite
    \/ SeqPutStart \/ SeqPutWrite
    \/ SeqSettleStart \/ SeqSettleWrite

SpecSeq == SeqInit /\ [][SeqNext]_vars

-----------------------------------------------------------------------------
(* Creates served strictly one after another, the lookup of which may fail *)
(* with a store error while the write that follows goes through.           *)

LookupRequest(g, uf, ut, amt, fail) ==
    [op |-> "post", group_id |-> g, user_from |-> uf, user_to |-> ut, amount |-> amt,
     lookup_failed |-> fail]

LookupPostStart ==
    /\ \E g \in SeqGroups, uf \in UserStrings(SeqUsers), ut \in UserStrings(SeqUsers),
          amt \in Amounts, fail \in BOOLEAN :
          PostStart("p1", g, uf, ut, amt, fail) /\ last' = LookupRequest(g, uf, ut, amt, fail)
    /\ UNCHANGED <<sent, out, members, settlements, users>>

LookupPostWrite ==
    /\ \E refresh \in BOOLEAN : PostWrite("p1", FALSE, refresh)
    /\ UNCHANGED <<sent, last, out, members, settlements, users>>

LookupNext == LookupPostStart \/ LookupPostWrite

SpecLookup == SeqInit /\ [][LookupNext]_vars

-----------------------------------------------------------------------------
(* Read requests applied to a store that earlier requests have filled:     *)
(* every small store (a self-debt row only for a user whose id is also     *)
(* sent in a second spelling, the way such a row gets past the create      *)
(* handler), and a group that was bulk-loaded with one debt per ordered    *)
(* pair of its users.                                                      *)

ReadRows ==
    {r \in [id : {0}, group_id : Groups, user_from : Users, user_to : Users,
            amount : 1..MaxAmount] : r.user_from # r.user_to \/ r.user_from \in AltUsers}

\* Ids in insertion order, the last inserted row first.
SmallStores ==
    UNION {{[i \in 1..n |-> [f[i] EXCEPT !.id = n + 1 - i]] : f \in [1..n -> ReadRows]} :
           n \in 0..MaxReadRows}

\* The k-th ordered pair of distinct users among 1..NumBulkUsers.
BulkFrom(k) == ((k - 1) \div (NumBulkUsers - 1)) + 1
BulkTo(k) ==
    LET j == ((k - 1) % (NumBulkUsers - 1)) + 1 IN IF j >= BulkFrom(k) THEN j + 1 ELSE j
BulkStore(n) ==
    [i \in 1..n |-> Row(n + 1 - i, "g1", BulkFrom(n + 1 - i), BulkTo(n + 1 - i), ((n + 1 - i) % 2) + 1)]
BulkStores == {BulkStore(n) : n \in (DefaultLimit - 1)..(DefaultLimit + BulkExtra)}

ReadInit ==
    /\ store \in SmallStores \cup BulkStores
    /\ nextId = Len(store)
    /\ procs = [p \in Procs |-> Idle]
    /\ sent = <<>>
    /\ last = NoRead
    /\ out = NoRead
    /\ members = <<>>
    /\ settlements = <<>>
    /\ users = <<>>

\* One read request is followed from its first statement to its response:
\* nothing is served after the response.
FirstRead == out = NoRead /\ procs["p1"].pc = "idle"

\* A handler between its two selects: the request, the store as the first
\* select read it (base), the ids of the rows inserted or refreshed since
\* (touched) and the number of statements of other requests served since
\* (between).
Reading(op, g, u, limit, offset) ==
    [pc |-> "select", op |-> op, group_id |-> g, user_id |-> u, limit |-> limit,
     offset |-> offset, base |-> store, touched |-> {}, between |-> 0]

IsReading(op) == procs["p1"].pc = "select" /\ procs["p1"].op = op

ReadUnchanged == UNCHANGED <<store, nextId, sent, last, members, settlements, users>>

\* GET /group/{group_id}/user/{user_id}/total, up to the end of the first
\* select of get_user_balances_in_group; when that select raises, the total
\* is Decimal('0').
GetUserTotalStart ==
    /\ FirstRead
    /\ \E g \in Groups, u \in UserStrings(Users), fail \in BOOLEAN :
          IF fail
          THEN /\ out' = [op |-> "total", group_id |-> g, user_id |-> u, fail |-> TRUE,
                          between |-> 0, net_balance |-> 0, status |-> TotalStatus(0)]
               /\ UNCHANGED procs
          ELSE /\ procs' = [procs EXCEPT !["p1"] = Reading("total", g, u, 0, 0)]
               /\ UNCHANGED out
    /\ ReadUnchanged

\* The second select, the loop and the response.
GetUserTotalFinish ==
    /\ IsReading("total")
    /\ LET r == procs["p1"] IN
       \E fail \in BOOLEAN :
       \E total_balance \in get_user_total_balance(r.base, store, r.group_id, r.user_id, fail) :
          out' = [op |-> "total", group_id |-> r.group_id, user_id |-> r.user_id,
                  fail |-> fail, between |-> r.between,
                  net_balance |-> total_balance, status |-> TotalStatus(total_balance)]
    /\ procs' = [procs EXCEPT !["p1"] = Idle]
    /\ ReadUnchanged

\* GET /group/{group_id}/summary
GetGroupSummary ==
    /\ FirstRead
    /\ \E g \in Groups, fail \in BOOLEAN :
          out' = [op |-> "summary", group_id |-> g, fail |-> fail, between |-> 0,
                  summary |-> get_group_balance_summary(store, g, fail)]
    /\ UNCHANGED <<store, nextId, procs, sent, last, members, settlements, users>>

\* The page sizes and offsets the list handlers admit (limit 1..100, default
\* 50; offset >= 0), as far as the model goes.
Limits == (1..MaxLimit) \cup {DefaultLimit}
Offsets == 0..MaxOffset

\* GET /group/{group_id}/balances
GetGroupBalances ==
    /\ FirstRead
    /\ \E g \in Groups, limit \in Limits, offset \in Offsets, fail \in BOOLEAN :
          out' = [op |-> "group_balances", group_id |-> g, limit |-> limit,
                  offset |-> offset, fail |-> fail, between |-> 0,
                  balances |-> get_group_balances(store, g, limit, offset, fail)]
    /\ UNCHANGED <<store, nextId, procs, sent, last, members, settlements, users>>

\* GET /group/{group_id}/user/{user_id}/balances, up to the end of the first
\* select; when that select raises, the list is empty.
GetUserBalancesInGroupStart ==
    /\ FirstRead
    /\ \E g \in Groups, u \in UserStrings(Users), fail \in BOOLEAN :
          IF fail
          THEN /\ out' = [op |-> "user_balances", group_id |-> g, user_id |-> u,
                          fail |-> TRUE, between |-> 0, balances |-> <<>>]
               /\ UNCHANGED procs
          ELSE /\ procs' = [procs EXCEPT !["p1"] = Reading("user_balances", g, u, 0, 0)]
               /\ UNCHANGED out
    /\ ReadUnchanged

\* The second select and the response.
GetUserBalancesInGroupFinish ==
    /\ IsReading("user_balances")
    /\ LET r == procs["p1"] IN
       \E fail \in BOOLEAN :
       \E balances \in get_user_balances_in_group(r.base, store, r.group_id, r.user_id, fail) :
          out' = [op |-> "user_balances", group_id |-> r.group_id, user_id |-> r.user_id,
                  fail |-> fail, between |-> r.between, balances |-> balances]
    /\ procs' = [procs EXCEPT !["p1"] = Idle]
    /\ ReadUnchanged

\* GET /user/{user_id}/balances, up to the end of the first select; when that
\* select raises, the list is empty.
GetAllUserBalancesStart ==
    /\ FirstRead
    /\ \E u \in UserStrings(Users), limit \in Limits, offset \in Offsets, fail \in BOOLEAN :
          IF fail
          THEN /\ out' = [op |-> "all_user_balances", user_id |-> u, limit |-> limit,
                          offset |-> offset, fail |-> TRUE, between |-> 0,
                          balances |-> <<>>]
               /\ UNCHANGED procs
          ELSE /\ procs' = [procs EXCEPT !["p1"] =
                               Reading("all_user_balances", "none", u, limit, offset)]
               /\ UNCHANGED out
    /\ ReadUnchanged

\* The second select, the sort, the cut and the response.
GetAllUserBalancesFinish ==
    /\ IsReading("all_user_balances")
    /\ LET r == procs["p1"] IN
       \E fail \in BOOLEAN :
          out' = [op |-> "all_user_balances", user_id |-> r.user_id, limit |-> r.limit,
                  offset |-> r.offset, fail |-> fail, between |-> r.between,
                  balances |-> get_all_user_balances(r.base, store, r.touched, r.user_id,
                                                     r.limit, r.offset, fail)]
    /\ procs' = [procs EXCEPT !["p1"] = Idle]
    /\ ReadUnchanged

\* The statements of the requests another worker serves while the handler is
\* between its two selects.  They are followed for the requests and the debts
\* of ConcGroups among ConcUsers, with the ids of BalanceIds, and up to
\* MaxBetween statements.
ConcRows == {r \in ReadRows : r.group_id \in ConcGroups /\ r.user_from \in ConcUsers
                              /\ r.user_to \in ConcUsers}

Between ==
    LET r == procs["p1"] IN
    /\ r.pc = "select"
    /\ r.between < MaxBetween
    /\ r.group_id \in ConcGroups \cup {"none"} /\ Parse(r.user_id) \in ConcUsers
    /\ \A b \in Range(r.base) : b.id \in BalanceIds /\ [b EXCEPT !.id = 0] \in ConcRows

\* insert(balance_data) of create_or_update_balance, sent by another request
OtherInsert ==
    /\ Between
    /\ nextId + 1 \in BalanceIds
    /\ \E r \in ConcRows :
          store' = InsertRow(store, nextId + 1, r.group_id, r.user_from, r.user_to, r.amount)
    /\ nextId' = nextId + 1
    /\ procs' = [procs EXCEPT !["p1"].touched = @ \cup {nextId + 1}, !["p1"].between = @ + 1]
    /\ UNCHANGED <<sent, last, out, members, settlements, users>>

\* update({'amount': ...}).eq('id', id), sent by another request
OtherUpdate ==
    /\ Between
    /\ \E i \in 1..Len(store), amt \in 1..MaxTotal, refresh \in BOOLEAN :
          /\ store' = UpdateAmount(store, store[i].id, amt, refresh)
          /\ procs' = [procs EXCEPT
                          !["p1"].touched = IF refresh THEN @ \cup {store[i].id} ELSE @,
                          !["p1"].between = @ + 1]
    /\ UNCHANGED <<nextId, sent, last, out, members, settlements, users>>

\* delete().eq('id', id), sent by another request
OtherDelete ==
    /\ Between
    /\ \E i \in 1..Len(store) : store' = DeleteRow(store, store[i].id)
    /\ procs' = [procs EXCEPT !["p1"].between = @ + 1]
    /\ UNCHANGED <<nextId, sent, last, out, members, settlements, users>>

ReadNext ==
    \/ GetUserTotalStart \/ GetUserTotalFinish
    \/ GetGroupSummary \/ GetGroupBalances
    \/ GetUserBalancesInGroupStart \/ GetUserBalancesInGroupFinish
    \/ GetAllUserBalancesStart \/ GetAllUserBalancesFinish
    \/ OtherInsert \/ OtherUpdate \/ OtherDelete

SpecRead == ReadInit /\ [][ReadNext]_vars

-----------------------------------------------------------------------------
(* Group memberships: table `group_members`, GroupMemberCRUD                *)
(* (backend/app/crud/group_members.py) and the /group_members handlers      *)
(* (backend/app/api/group_members.py).  A handler that looks a row up and   *)
(* then writes sends two statements without a transaction: it is two steps, *)
(* and the statements of another request may be served between them.  Each  *)
(* statement may fail.                                                      *)

\* The ids the store hands out to membership rows, in this order.
MemberIds == {1, 2}

\* valid_roles of update_member_role
ValidRoles == {"member", "admin", "owner"}

\* The roles the clients send.
RequestRoles == {"member", "admin", "superuser"}

\* select('*').eq('id', member_id).eq('is_active', True)
ActiveMembersById(m, id) == {r \in Range(m) : r.id = id /\ r.is_active}

\* A variant of get_member_by_id that is not the code's: no is_active filter.
get_member_by_id_any(m, id, fail) ==
    IF fail THEN {} ELSE {r \in Range(m) : r.id = id}

\* get_member_by_id: the rows `if not member` is decided on; none if the
\* select raises.
get_member_by_id(m, id, fail) ==
    IF fail THEN {} ELSE ActiveMembersById(m, id)

\* select('*').eq('group_id', ...).eq('user_id', ...).eq('is_active', True)
ActiveMembersOf(m, g, u) ==
    {r \in Range(m) : r.group_id = g /\ r.user_id = Parse(u) /\ r.is_active}

\* get_member_by_user_and_group: none if the select raises.
get_member_by_user_and_group(m, g, u, fail) ==
    IF fail THEN {} ELSE ActiveMembersOf(m, g, u)

\* add_member: insert with is_active True
add_member(m, g, u, role) ==
    Append(m, [id |-> Len(m) + 1, group_id |-> g, user_id |-> Parse(u), role |-> role,
               is_active |-> TRUE])

\* update_member_role: update role where id and is_active
update_member_role(m, id, role) ==
    [i \in DOMAIN m |->
        IF m[i].id = id /\ m[i].is_active THEN [m[i] EXCEPT !.role = role] ELSE m[i]]

\* remove_member: update is_active False where id
remove_member(m, id) ==
    [i \in DOMAIN m |-> IF m[i].id = id THEN [m[i] EXCEPT !.is_active = FALSE] ELSE m[i]]

\* remove_member_by_user_and_group: update is_active False where group,
\* user and is_active
remove_member_by_user_and_group(m, g, u) ==
    [i \in DOMAIN m |->
        IF m[i] \in ActiveMembersOf(m, g, u) THEN [m[i] EXCEPT !.is_active = FALSE] ELSE m[i]]

\* A slot of the membership handlers: idle, a request between its lookup and
\* its write, or the response to the request served in it.
MemberIdle ==
    [pc |-> "idle", op |-> "none", status |-> 0, group_id |-> "none", user_id |-> NoStr,
     role |-> "none", member_id |-> 0]

MemberPending(op, g, u, role, id) ==
    [MemberIdle EXCEPT !.pc = "write", !.op = op, !.group_id = g, !.user_id = u,
                       !.role = role, !.member_id = id]

MemberResponse(op, status, id) ==
    [MemberIdle EXCEPT !.pc = "done", !.op = op, !.status = status, !.member_id = id]

MembersInit ==
    /\ store = <<>> /\ nextId = 0
    /\ procs = [p \in Procs |-> MemberIdle]
    /\ sent = <<>> /\ last = NoRead /\ out = NoRead
    /\ members = <<>> /\ settlements = <<>> /\ users = <<>>

\* The other tables stay as they are.
MembersOnly == UNCHANGED <<store, nextId, sent, last, out, settlements, users>>

\* POST /group_members up to the end of get_member_by_user_and_group
AddMemberToGroupStart(p) ==
    /\ procs[p].pc = "idle"
    /\ \E g \in ConcGroups, u \in UserStrings(ConcUsers), role \in RequestRoles,
          fail \in BOOLEAN :
          procs' = [procs EXCEPT ![p] =
              IF get_member_by_user_and_group(members, g, u, fail) # {}
              THEN MemberResponse("add_member", 400, 0)
              ELSE MemberPending("add_member", g, u, role, 0)]
    /\ members' = members
    /\ MembersOnly

\* POST /group_members from add_member on
AddMemberToGroupWrite(p) ==
    /\ procs[p].pc = "write" /\ procs[p].op = "add_member"
    /\ \E fail \in BOOLEAN :
          IF fail
          THEN /\ procs' = [procs EXCEPT ![p] = MemberResponse("add_member", 500, 0)]
               /\ members' = members
          ELSE /\ Len(members) + 1 \in MemberIds
               /\ members' = add_member(members, procs[p].group_id, procs[p].user_id,
                                        procs[p].role)
               /\ procs' = [procs EXCEPT ![p] =
                               MemberResponse("add_member", 201, Len(members) + 1)]
    /\ MembersOnly

\* GET /group_members/member/{member_id}
GetMember(p) ==
    /\ procs[p].pc = "idle"
    /\ \E id \in MemberIds, fail \in BOOLEAN :
          procs' = [procs EXCEPT ![p] =
              MemberResponse("get_member",
                             IF get_member_by_id(members, id, fail) = {} THEN 404 ELSE 200,
                             id)]
    /\ members' = members
    /\ MembersOnly

\* PUT /group_members/member/{member_id}/role up to the end of the role check
UpdateMemberRoleStart(p) ==
    /\ procs[p].pc = "idle"
    /\ \E id \in MemberIds, role \in RequestRoles, fail \in BOOLEAN :
          procs' = [procs EXCEPT ![p] =
              IF get_member_by_id(members, id, fail) = {}
              THEN MemberResponse("update_member_role", 404, id)
              ELSE IF role \notin ValidRoles
              THEN MemberResponse("update_member_role", 400, id)
              ELSE MemberPending("update_member_role", "none", NoStr, role, id)]
    /\ members' = members
    /\ MembersOnly

\* PUT /group_members/member/{member_id}/role from update_member_role on:
\* 500 when the update raises or matches no row
UpdateMemberRoleWrite(p) ==
    /\ procs[p].pc = "write" /\ procs[p].op = "update_member_role"
    /\ \E fail \in BOOLEAN :
          IF fail
          THEN /\ procs' = [procs EXCEPT ![p] =
                               MemberResponse("update_member_role", 500, procs[p].member_id)]
               /\ members' = members
          ELSE /\ members' = update_member_role(members, procs[p].member_id, procs[p].role)
               /\ procs' = [procs EXCEPT ![p] =
                     MemberResponse("update_member_role",
                                    IF ActiveMembersById(members, procs[p].member_id) # {}
                                    THEN 200 ELSE 500,
                                    procs[p].member_id)]
    /\ MembersOnly

\* DELETE /group_members/member/{member_id} up to the end of get_member_by_id
RemoveMemberStart(p) ==
    /\ procs[p].pc = "idle"
    /\ \E id \in MemberIds, fail \in BOOLEAN :
          procs' = [procs EXCEPT ![p] =
              IF get_member_by_id(members, id, fail) = {}
              THEN MemberResponse("remove_member", 404, id)
              ELSE MemberPending("remove_member", "none", NoStr, "none", id)]
    /\ members' = members
    /\ MembersOnly

\* DELETE /group_members/member/{member_id} from remove_member on: 500 when
\* the update raises or matches no row
RemoveMemberWrite(p) ==
    /\ procs[p].pc = "write" /\ procs[p].op = "remove_member"
    /\ \E fail \in BOOLEAN :
          IF fail
          THEN /\ procs' = [procs EXCEPT ![p] =
                               MemberResponse("remove_member", 500, procs[p].member_id)]
               /\ members' = members
          ELSE /\ members' = remove_member(members, procs[p].member_id)
               /\ procs' = [procs EXCEPT ![p] =
                     MemberResponse("remove_member",
                                    IF {r \in Range(members) : r.id = procs[p].member_id} # {}
                                    THEN 204 ELSE 500,
                                    procs[p].member_id)]
    /\ MembersOnly

\* DELETE /group_members/group/{group_id}/member/{user_id} up to the end of
\* get_member_by_user_and_group
RemoveMemberFromGroupStart(p) ==
    /\ procs[p].pc = "idle"
    /\ \E g \in ConcGroups, u \in UserStrings(ConcUsers), fail \in BOOLEAN :
          procs' = [procs EXCEPT ![p] =
              IF get_member_by_user_and_group(members, g, u, fail) = {}
              THEN MemberResponse("remove_member_from_group", 404, 0)
              ELSE MemberPending("remove_member_from_group", g, u, "none", 0)]
    /\ members' = members
    /\ MembersOnly

\* DELETE /group_members/group/{group_id}/member/{user_id} from
\* remove_member_by_user_and_group on: 500 when the update raises or matches
\* no row
RemoveMemberFromGroupWrite(p) ==
    /\ procs[p].pc = "write" /\ procs[p].op = "remove_member_from_group"
    /\ \E fail \in BOOLEAN :
          IF fail
          THEN /\ procs' = [procs EXCEPT ![p] =
                               MemberResponse("remove_member_from_group", 500, 0)]
               /\ members' = members
          ELSE /\ members' = remove_member_by_user_and_group(members, procs[p].group_id,
                                                             procs[p].user_id)
               /\ procs' = [procs EXCEPT ![p] =
                     MemberResponse("remove_member_from_group",
                                    IF ActiveMembersOf(members, procs[p].group_id,
                                                       procs[p].user_id) # {}
                                    THEN 204 ELSE 500,
                                    0)]
    /\ MembersOnly

\* The response has been sent: the worker takes the next request.
MemberReturn(p) ==
    /\ procs[p].pc = "done"
    /\ procs' = [procs EXCEPT ![p] = MemberIdle]
    /\ members' = members
    /\ MembersOnly

\* The requests of two workers, their statements interleaved.
MembersNext ==
    \E p \in Procs :
        \/ AddMemberToGroupStart(p) \/ AddMemberToGroupWrite(p)
        \/ GetMember(p)
        \/ UpdateMemberRoleStart(p) \/ UpdateMemberRoleWrite(p)
        \/ RemoveMemberStart(p) \/ RemoveMemberWrite(p)
        \/ RemoveMemberFromGroupStart(p) \/ RemoveMemberFromGroupWrite(p)
        \/ MemberReturn(p)

SpecMembers == MembersInit /\ [][MembersNext]_vars

\* The requests served one after another.
MembersSeqNext ==
    \/ AddMemberToGroupStart("p1") \/ AddMemberToGroupWrite("p1")
    \/ GetMember("p1")
    \/ UpdateMemberRoleStart("p1") \/ UpdateMemberRoleWrite("p1")
    \/ RemoveMemberStart("p1") \/ RemoveMemberWrite("p1")
    \/ RemoveMemberFromGroupStart("p1") \/ RemoveMemberFromGroupWrite("p1")
    \/ MemberReturn("p1")

SpecMembersSeq == MembersInit /\ [][MembersSeqNext]_vars

-----------------------------------------------------------------------------
(* Settlements: table `settlements`, SettlementsCRUD                        *)
(* (backend/app/crud/settlements.py) and the POST, PUT and DELETE handlers  *)
(* of /settlements (backend/app/api/settlements.py), a statement a step.    *)
(* The amount, method, reference and notes of a settlement are not          *)
(* modelled: the handlers pass them to the store as they come.  nextId is   *)
(* the last id the store handed out in the table.                           *)

\* The ids the store hands out to settlement rows, in this order.
SettlementIds == {1, 2}

\* An optional parameter that was not sent (None).
NoGroup == "none"

\* get_settlement_by_id: the rows `if not existing_settlement` is decided on;
\* none if the select raises.
get_settlement_by_id(t, id, fail) ==
    IF fail THEN {} ELSE {r \in Range(t) : r.id = id}

\* create_settlement (handler): `if from_user == to_user`, on the strings sent
CreateSameUserRejected(from_user, to_user) == from_user = to_user

\* update_settlement (handler): `if from_user and to_user and from_user == to_user`
UpdateSameUserRejected(from_user, to_user) ==
    from_user # NoStr /\ to_user # NoStr /\ from_user = to_user

\* create_settlement (CRUD): insert; the uuid columns parse the strings
create_settlement(t, id, g, from_user, to_user) ==
    Append(t, [id |-> id, group_id |-> g, from_user |-> Parse(from_user),
               to_user |-> Parse(to_user)])

\* update_settlement (CRUD): update of the fields that were sent, where id
update_settlement(t, id, g, from_user, to_user) ==
    [i \in DOMAIN t |->
        IF t[i].id = id
        THEN [t[i] EXCEPT !.group_id = IF g # NoGroup THEN g ELSE @,
                          !.from_user = IF from_user # NoStr THEN Parse(from_user) ELSE @,
                          !.to_user = IF to_user # NoStr THEN Parse(to_user) ELSE @]
        ELSE t[i]]

\* delete_settlement (CRUD): delete where id
delete_settlement(t, id) == Without(t, id)

\* A slot of the settlement handlers: idle, a request between its existence
\* check and its write, or the response to the request served in it.
SettlementIdle ==
    [pc |-> "idle", op |-> "none", status |-> 0, settlement_id |-> 0, group_id |-> NoGroup,
     from_user |-> NoStr, to_user |-> NoStr]

SettlementPending(op, id, g, from_user, to_user) ==
    [SettlementIdle EXCEPT !.pc = "write", !.op = op, !.settlement_id = id, !.group_id = g,
                           !.from_user = from_user, !.to_user = to_user]

SettlementResponse(op, status, id) ==
    [SettlementIdle EXCEPT !.pc = "done", !.op = op, !.status = status, !.settlement_id = id]

SettlementsInit ==
    /\ store = <<>> /\ nextId = 0
    /\ procs = [p \in Procs |-> SettlementIdle]
    /\ sent = <<>> /\ last = NoRead /\ out = NoRead
    /\ members = <<>> /\ settlements = <<>> /\ users = <<>>

\* The other tables stay as they are.
SettlementsOnly == UNCHANGED <<store, sent, last, out, members, users>>

\* POST /settlements: the check of the two strings, then the insert
CreateSettlement(p) ==
    /\ procs[p].pc = "idle"
    /\ \E g \in ConcGroups, from_user \in UserStrings(ConcUsers),
          to_user \in UserStrings(ConcUsers), fail \in BOOLEAN :
          IF CreateSameUserRejected(from_user, to_user)
          THEN /\ procs' = [procs EXCEPT ![p] = SettlementResponse("create_settlement", 400, 0)]
               /\ UNCHANGED <<settlements, nextId>>
          ELSE IF fail
          THEN /\ procs' = [procs EXCEPT ![p] = SettlementResponse("create_settlement", 500, 0)]
               /\ UNCHANGED <<settlements, nextId>>
          ELSE /\ nextId + 1 \in SettlementIds
               /\ settlements' = create_settlement(settlements, nextId + 1, g, from_user, to_user)
               /\ nextId' = nextId + 1
               /\ procs' = [procs EXCEPT ![p] =
                               SettlementResponse("create_settlement", 201, nextId + 1)]
    /\ SettlementsOnly

\* PUT /settlements/{settlement_id} up to the end of the check of the two
\* strings
UpdateSettlementStart(p) ==
    /\ procs[p].pc = "idle"
    /\ \E id \in SettlementIds, g \in ConcGroups \cup {NoGroup},
          from_user \in UserStrings(ConcUsers) \cup {NoStr},
          to_user \in UserStrings(ConcUsers) \cup {NoStr}, fail \in BOOLEAN :
          procs' = [procs EXCEPT ![p] =
              IF get_settlement_by_id(settlements, id, fail) = {}
              THEN SettlementResponse("update_settlement", 404, id)
              ELSE IF UpdateSameUserRejected(from_user, to_user)
              THEN SettlementResponse("update_settlement", 400, id)
              ELSE SettlementPending("update_settlement", id, g, from_user, to_user)]
    /\ UNCHANGED <<settlements, nextId>>
    /\ SettlementsOnly

\* PUT /settlements/{settlement_id} from update_settlement (CRUD) on: the
\* update, or the select when no field was sent; 500 when the statement
\* raises or finds no row
UpdateSettlementWrite(p) ==
    /\ procs[p].pc = "write" /\ procs[p].op = "update_settlement"
    /\ \E fail \in BOOLEAN :
          IF fail
          THEN /\ procs' = [procs EXCEPT ![p] =
                     SettlementResponse("update_settlement", 500, procs[p].settlement_id)]
               /\ settlements' = settlements
          ELSE /\ settlements' = update_settlement(settlements, procs[p].settlement_id,
                                                   procs[p].group_id, procs[p].from_user,
                                                   procs[p].to_user)
               /\ procs' = [procs EXCEPT ![p] =
                     SettlementResponse("update_settlement",
                         IF get_settlement_by_id(settlements, procs[p].settlement_id, FALSE) # {}
                         THEN 200 ELSE 500,
                         procs[p].settlement_id)]
    /\ UNCHANGED nextId
    /\ SettlementsOnly

\* DELETE /settlements/{settlement_id} up to the end of get_settlement_by_id
DeleteSettlementStart(p) ==
    /\ procs[p].pc = "idle"
    /\ \E id \in SettlementIds, fail \in BOOLEAN :
          procs' = [procs EXCEPT ![p] =
              IF get_settlement_by_id(settlements, id, fail) = {}
              THEN SettlementResponse("delete_settlement", 404, id)
              ELSE SettlementPending("delete_settlement", id, NoGroup, NoStr, NoStr)]
    /\ UNCHANGED <<settlements, nextId>>
    /\ SettlementsOnly

\* DELETE /settlements/{settlement_id} from delete_settlement (CRUD) on: 500
\* when the delete raises or finds no row
DeleteSettlementWrite(p) ==
    /\ procs[p].pc = "write" /\ procs[p].op = "delete_settlement"
    /\ \E fail \in BOOLEAN :
          IF fail
          THEN /\ procs' = [procs EXCEPT ![p] =
                     SettlementResponse("delete_settlement", 500, procs[p].settlement_id)]
               /\ settlements' = settlements
          ELSE /\ settlements' = delete_settlement(settlements, procs[p].settlement_id)
               /\ procs' = [procs EXCEPT ![p] =
                     SettlementResponse("delete_settlement",
                         IF get_settlement_by_id(settlements, procs[p].settlement_id, FALSE) # {}
                         THEN 204 ELSE 500,
                         procs[p].settlement_id)]
    /\ UNCHANGED nextId
    /\ SettlementsOnly

\* The response has been sent: the worker takes the next request.
SettlementReturn(p) ==
    /\ procs[p].pc = "done"
    /\ procs' = [procs EXCEPT ![p] = SettlementIdle]
    /\ UNCHANGED <<settlements, nextId>>
    /\ SettlementsOnly

\* The requests of two workers, their statements interleaved.
SettlementsNext ==
    \E p \in Procs :
        \/ CreateSettlement(p)
        \/ UpdateSettlementStart(p) \/ UpdateSettlementWrite(p)
        \/ DeleteSettlementStart(p) \/ DeleteSettlementWrite(p)
        \/ SettlementReturn(p)

SpecSettlements == SettlementsInit /\ [][SettlementsNext]_vars

-----------------------------------------------------------------------------
(* Users: table `users`, UserCRUD (backend/app/crud/users.py) and the POST, *)
(* PUT and DELETE handlers of /users (backend/app/api/users.py), a          *)
(* statement a step.  The name and the timezone of a user are not modelled. *)
(* nextId is the last id the store handed out in the table.                 *)

\* The ids the store hands out to user rows, in this order.
UserIds == {1, 2}

Emails == {"a@example.com", "b@example.com"}

\* An optional email that was not sent (None).
NoEmail == ""

\* get_user_by_id: the rows `if not existing_user` is decided on; none if the
\* select raises.  The uuid column parses the string.
get_user_by_id(t, user_id, fail) ==
    IF fail THEN {} ELSE {r \in Range(t) : r.id = Parse(user_id)}

\* get_user_by_email: data[0] is any of the rows of the email; none if the
\* select raises.
get_user_by_email(t, email, fail) ==
    IF fail THEN {} ELSE {r \in Range(t) : r.email = email}

\* `existing_user_with_email.id != user_id`: the left side is the uuid.UUID
\* of the User model, the right side the str of the path.  UUID.__eq__ gives
\* NotImplemented for a str, so != is True whatever the two values are.
IdDiffersFromPath(id, user_id) == TRUE

\* create_user (CRUD): insert
create_user(t, id, email) == Append(t, [id |-> id, email |-> email])

\* update_user (CRUD): update of the fields that were sent, where id
update_user(t, user_id, email) ==
    [i \in DOMAIN t |->
        IF t[i].id = Parse(user_id) /\ email # NoEmail
        THEN [t[i] EXCEPT !.email = email]
        ELSE t[i]]

\* delete_user (CRUD): delete where id
delete_user(t, user_id) == Without(t, Parse(user_id))

\* A slot of the user handlers: idle, a request before its email check
\* ("check") or before its write ("write"), or the response to the request
\* served in it.
UserIdle == [pc |-> "idle", op |-> "none", status |-> 0, user_id |-> NoStr, email |-> NoEmail]

UserPending(pc, op, user_id, email) ==
    [UserIdle EXCEPT !.pc = pc, !.op = op, !.user_id = user_id, !.email = email]

UserResponse(op, status, user_id, email) ==
    [UserIdle EXCEPT !.pc = "done", !.op = op, !.status = status, !.user_id = user_id,
                     !.email = email]

UsersInit ==
    /\ store = <<>> /\ nextId = 0
    /\ procs = [p \in Procs |-> UserIdle]
    /\ sent = <<>> /\ last = NoRead /\ out = NoRead
    /\ members = <<>> /\ settlements = <<>> /\ users = <<>>

\* The other tables stay as they are.
UsersOnly == UNCHANGED <<store, sent, last, out, members, settlements>>

\* POST /users up to the end of get_user_by_email
CreateUserStart(p) ==
    /\ procs[p].pc = "idle"
    /\ \E email \in Emails, fail \in BOOLEAN :
          procs' = [procs EXCEPT ![p] =
              IF get_user_by_email(users, email, fail) # {}
              THEN UserResponse("create_user", 400, NoStr, email)
              ELSE UserPending("write", "create_user", NoStr, email)]
    /\ UNCHANGED <<users, nextId>>
    /\ UsersOnly

\* POST /users from create_user (CRUD) on
CreateUserWrite(p) ==
    /\ procs[p].pc = "write" /\ procs[p].op = "create_user"
    /\ \E fail \in BOOLEAN :
          IF fail
          THEN /\ procs' = [procs EXCEPT ![p] =
                               UserResponse("create_user", 500, NoStr, procs[p].email)]
               /\ UNCHANGED <<users, nextId>>
          ELSE /\ nextId + 1 \in UserIds
               /\ users' = create_user(users, nextId + 1, procs[p].email)
               /\ nextId' = nextId + 1
               /\ procs' = [procs EXCEPT ![p] =
                               UserResponse("create_user", 201, Str(nextId + 1), procs[p].email)]
    /\ UsersOnly

\* PUT /users/{user_id} up to the end of get_user_by_id
UpdateUserStart(p) ==
    /\ procs[p].pc = "idle"
    /\ \E user_id \in UserStrings(UserIds), email \in Emails \cup {NoEmail}, fail \in BOOLEAN :
          procs' = [procs EXCEPT ![p] =
              IF get_user_by_id(users, user_id, fail) = {}
              THEN UserResponse("update_user", 404, user_id, email)
              ELSE UserPending(IF email # NoEmail THEN "check" ELSE "write",
                               "update_user", user_id, email)]
    /\ UNCHANGED <<users, nextId>>
    /\ UsersOnly

\* PUT /users/{user_id}, `if email:` get_user_by_email and the comparison
UpdateUserCheck(p) ==
    /\ procs[p].pc = "check" /\ procs[p].op = "update_user"
    /\ \E fail \in BOOLEAN :
          procs' = [procs EXCEPT ![p] =
              IF \E e \in get_user_by_email(users, procs[p].email, fail) :
                    IdDiffersFromPath(e.id, procs[p].user_id)
              THEN UserResponse("update_user", 400, procs[p].user_id, procs[p].email)
              ELSE UserPending("write", "update_user", procs[p].user_id, procs[p].email)]
    /\ UNCHANGED <<users, nextId>>
    /\ UsersOnly

\* PUT /users/{user_id} from update_user (CRUD) on: the update, or the
\* select when no field was sent; 500 when the statement raises or finds no
\* row
UpdateUserWrite(p) ==
    /\ procs[p].pc = "write" /\ procs[p].op = "update_user"
    /\ \E fail \in BOOLEAN :
          IF fail
          THEN /\ procs' = [procs EXCEPT ![p] =
                     UserResponse("update_user", 500, procs[p].user_id, procs[p].email)]
               /\ users' = users
          ELSE /\ users' = update_user(users, procs[p].user_id, procs[p].email)
               /\ procs' = [procs EXCEPT ![p] =
                     UserResponse("update_user",
                                  IF get_user_by_id(users, procs[p].user_id, FALSE) # {}
                                  THEN 200 ELSE 500,
                                  procs[p].user_id, procs[p].email)]
    /\ UNCHANGED nextId
    /\ UsersOnly

\* DELETE /users/{user_id} up to the end of get_user_by_id
DeleteUserStart(p) ==
    /\ procs[p].pc = "idle"
    /\ \E user_id \in UserStrings(UserIds), fail \in BOOLEAN :
          procs' = [procs EXCEPT ![p] =
              IF get_user_by_id(users, user_id, fail) = {}
              THEN UserResponse("delete_user", 404, user_id, NoEmail)
              ELSE UserPending("write", "delete_user", user_id, NoEmail)]
    /\ UNCHANGED <<users, nextId>>
    /\ UsersOnly

\* DELETE /users/{user_id} from delete_user (CRUD) on: 500 when the delete
\* raises or finds no row
DeleteUserWrite(p) ==
    /\ procs[p].pc = "write" /\ procs[p].op = "delete_user"
    /\ \E fail \in BOOLEAN :
          IF fail
          THEN /\ procs' = [procs EXCEPT ![p] =
                     UserResponse("delete_user", 500, procs[p].user_id, NoEmail)]
               /\ users' = users
          ELSE /\ users' = delete_user(users, procs[p].user_id)
               /\ procs' = [procs EXCEPT ![p] =
                     UserResponse("delete_user",
                                  IF get_user_by_id(users, procs[p].user_id, FALSE) # {}
                                  THEN 204 ELSE 500,
                                  procs[p].user_id, NoEmail)]
    /\ UNCHANGED nextId
    /\ UsersOnly

\* The response has been sent: the worker takes the next request.
UserReturn(p) ==
    /\ procs[p].pc = "done"
    /\ procs' = [procs EXCEPT ![p] = UserIdle]
    /\ UNCHANGED <<users, nextId>>
    /\ UsersOnly

\* The requests of two workers, their statements interleaved.
UsersNext ==
    \E p \in Procs :
        \/ CreateUserStart(p) \/ CreateUserWrite(p)
        \/ UpdateUserStart(p) \/ UpdateUserCheck(p) \/ UpdateUserWrite(p)
        \/ DeleteUserStart(p) \/ DeleteUserWrite(p)
        \/ UserReturn(p)

SpecUsers == UsersInit /\ [][UsersNext]_vars

-----------------------------------------------------------------------------
(* Properties *)

RowsOfTriple(s, t) == {r \in Range(s) : TripleOf(r) = t}

\* C1: creates for one triple, served one after another with no store failure
\* from a state with no edge for the triple, leave exactly one edge for it,
\* whose amount is the sum of the amounts created.
C1_SequentialMergeSum ==
    \A t \in SeqTriples :
        /\ sent[t] = 0 => RowsOfTriple(store, t) = {}
        /\ sent[t] > 0 =>
              /\ Cardinality(RowsOfTriple(store, t)) = 1
              /\ \A r \in RowsOfTriple(store, t) : r.amount = sent[t]

C1_Witness ==
    \E t \in SeqTriples :
        /\ sent[t] > MaxAmount
        /\ procs["p1"].pc = "done" /\ procs["p1"].op = "post" /\ procs["p1"].status = 201
        /\ \E r \in RowsOfTriple(store, t) : r.amount = sent[t] /\ r.id = procs["p1"].balance_id

\* C2: under any interleaving of creates, amendments and settlements, at most
\* one edge exists for each ordered triple (group_id, user_from, user_to).
C2_AtMostOneEdgePerTriple ==
    \A r \in Range(store), q \in Range(store) : TripleOf(r) = TripleOf(q) => r.id = q.id

\* C3: a create that looked up the edge at amount m writes m + its own delta,
\* whatever the edge's amount has become in between, and reports success: the
\* delta of a create that wrote in between is lost.
C3_LostUpdate ==
    [][\A p \in Procs :
          (/\ procs[p].pc = "write" /\ procs[p].op = "post" /\ procs[p].existing # NoRow
           /\ procs'[p].pc = "done" /\ procs'[p].status # 500)
          => /\ procs'[p].status = 201
             /\ procs'[p].balance_id = procs[p].existing.id
             /\ procs'[p].amount = procs[p].existing.amount + procs[p].amount
             /\ RowsWithId(store', procs[p].existing.id) # {}
             /\ \A r \in RowsWithId(store', procs[p].existing.id) :
                   r.amount = procs[p].existing.amount + procs[p].amount]_vars

\* Both creates were answered 201 with the same edge at the same amount, which
\* is the amount stored: both read the same m, and one delta is lost.
C3_Witness ==
    \E p \in Procs, q \in Procs :
        /\ p # q
        /\ procs[p].pc = "done" /\ procs[p].op = "post" /\ procs[p].status = 201
        /\ procs[q].pc = "done" /\ procs[q].op = "post" /\ procs[q].status = 201
        /\ procs[p].balance_id = procs[q].balance_id
        /\ procs[p].amount = procs[q].amount
        /\ Len(store) = 1
        /\ \A r \in RowsWithId(store, procs[p].balance_id) : r.amount = procs[p].amount

\* C4: a create for (g, a, b) leaves every edge of another triple as it was,
\* the reverse edge (g, b, a) included, and creates no edge of another triple.
C4_CreateFrame ==
    [][last'.op = "post" =>
          LET t == <<last'.group_id, Parse(last'.user_from), Parse(last'.user_to)>> IN
          {r \in Range(store') : TripleOf(r) # t} = {r \in Range(store) : TripleOf(r) # t}]_vars

C4_Witness ==
    /\ last.op = "post"
    /\ procs["p1"].pc = "done" /\ procs["p1"].status = 201
    /\ Parse(last.user_from) # Parse(last.user_to)
    /\ \E r \in Range(store) :
          /\ TripleOf(r) = <<last.group_id, Parse(last.user_from), Parse(last.user_to)>>
          /\ r.amount > MaxAmount
    /\ \E r \in Range(store) :
          TripleOf(r) = <<last.group_id, Parse(last.user_to), Parse(last.user_from)>>

\* C5: a create request with amount <= 0 or with user_from == user_to is
\* answered 400, and the store is after it what it was before it.
C5_InvalidCreateRejected ==
    [][(/\ procs["p1"].pc # "write"
        /\ last'.op = "post"
        /\ (last'.amount <= 0 \/ last'.user_from = last'.user_to))
       => /\ procs'["p1"].pc = "done"
          /\ procs'["p1"].status = 400
          /\ store' = store
          /\ nextId' = nextId]_vars

C5_Witness ==
    /\ last.op = "post"
    /\ last.amount > 0 /\ last.user_from = last.user_to
    /\ procs["p1"].pc = "done" /\ procs["p1"].status = 400
    /\ \E r \in Range(store) : r.user_to = Parse(last.user_from)

\* C6: from the empty store, under any interleaving of creates, amendments
\* and settlements, every stored edge has amount > 0.
C6_AmountsPositive == \A r \in Range(store) : r.amount > 0

C6_Witness ==
    \E p \in Procs, q \in Procs :
        /\ procs[p].pc = "done" /\ procs[p].op = "put" /\ procs[p].status = 200
        /\ procs[q].pc = "done" /\ procs[q].op = "post" /\ procs[q].status = 201
        /\ procs[q].amount > MaxAmount
        /\ Len(store) = 2

\* C7: from the empty store, under any interleaving of requests, no stored
\* edge has user_from equal to user_to.
C7_NoSelfDebt == \A r \in Range(store) : r.user_from # r.user_to

RECURSIVE SumOfAmounts(_)
SumOfAmounts(rows) ==
    IF rows = {} THEN 0
    ELSE LET r == CHOOSE x \in rows : TRUE IN r.amount + SumOfAmounts(rows \ {r})

\* The user's credits minus the user's debts over the edges of the group.
CreditsMinusDebts(s, g, u) ==
    SumOfAmounts({r \in Range(s) : r.group_id = g /\ r.user_to = u})
    - SumOfAmounts({r \in Range(s) : r.group_id = g /\ r.user_from = u})

\* The store was the same at the two selects of the read answered in out: no
\* statement of another request was served between them.
Quiet == out.between = 0

UsersOfGroup(s, g) ==
    {r.user_from : r \in {x \in Range(s) : x.group_id = g}}
    \cup {r.user_to : r \in {x \in Range(s) : x.group_id = g}}

\* C8: without self-debt edges and read failures, the total of user u in
\* group g is the sum of the amounts of g's edges to u minus the sum of the
\* amounts of g's edges from u.
C8_TotalIsCreditsMinusDebts ==
    (out.op = "total" /\ ~out.fail /\ Quiet /\ \A r \in Range(store) : r.user_from # r.user_to)
    => out.net_balance = CreditsMinusDebts(store, out.group_id, Parse(out.user_id))

RECURSIVE SumOfTotals(_, _, _)
SumOfTotals(s, g, us) ==
    IF us = {} THEN 0
    ELSE LET u == CHOOSE x \in us : TRUE IN
         (CHOOSE total \in get_user_total_balance(s, s, g, Str(u), FALSE) : TRUE)
         + SumOfTotals(s, g, us \ {u})

\* C9: in every reachable store, for every group, the totals of the users
\* that appear in an edge of the group add up to zero.
C9_TotalsSumToZero ==
    \A g \in Groups : SumOfTotals(store, g, UsersOfGroup(store, g)) = 0

\* C10: the summary of group g counts all edges of g and gives every user
\* that appears in one of them the user's credits minus debts over all of
\* them, the value get_user_total_balance returns.
C10_SummaryCoversGroup ==
    (out.op = "summary" /\ ~out.fail)
    => /\ out.summary.total_balances
            = Cardinality({r \in Range(store) : r.group_id = out.group_id})
       /\ DOMAIN out.summary.user_net_balances
            = {Str(u) : u \in UsersOfGroup(store, out.group_id)}
       /\ \A u \in UsersOfGroup(store, out.group_id) :
             /\ Str(u) \in DOMAIN out.summary.user_net_balances
                  => out.summary.user_net_balances[Str(u)]
                        = CreditsMinusDebts(store, out.group_id, u)
             /\ get_user_total_balance(store, store, out.group_id, Str(u), FALSE)
                  = {CreditsMinusDebts(store, out.group_id, u)}

\* C11: a settle request for an id that has no edge is answered 404 and
\* leaves the store as it is; so is a second settle of an id, sent after the
\* first one was answered.
C11_SettleMissingFails ==
    [][(/\ procs["p1"].pc # "write"
        /\ last'.op = "settle"
        /\ RowsWithId(store, last'.balance_id) = {})
       => /\ procs'["p1"].pc = "done"
          /\ procs'["p1"].status = 404
          /\ store' = store]_vars

\* The id was handed out and its edge is gone: it was settled before.
C11_Witness ==
    /\ last.op = "settle"
    /\ last.balance_id <= nextId
    /\ procs["p1"].pc = "done" /\ procs["p1"].op = "settle" /\ procs["p1"].status = 404
    /\ store # <<>>

\* C12: a settle is answered 204 only if its delete removed the edge, and is
\* answered 404 whenever the edge is gone when its delete executes.
C12_SettleGoneIsNotFound ==
    [][\A p \in Procs :
          (/\ procs[p].pc = "write" /\ procs[p].op = "settle"
           /\ procs'[p].pc = "done")
          => /\ procs'[p].status = 204
                => /\ RowsWithId(store, procs[p].balance_id) # {}
                   /\ RowsWithId(store', procs[p].balance_id) = {}
             /\ RowsWithId(store, procs[p].balance_id) = {}
                => procs'[p].status = 404]_vars

\* GET /balances/between answers 404 for the triple, in every spelling.
BetweenNotFound(s, t) ==
    \A uf \in UserStrings({t[2]}), ut \in UserStrings({t[3]}) :
        GetBalanceBetween(s, t[1], uf, ut, FALSE) = 404

\* C13: after a successful settle of the edge of a triple, the lookups by id
\* and by pair answer 404, and keep answering it until the next create for
\* the triple; that create makes an edge whose amount is the created amount.
C13_SettledEdgeIsGone ==
    [][LET r == procs["p1"] IN
       /\ (r.pc = "write" /\ r.op = "settle" /\ procs'["p1"].status = 204)
          => /\ GetBalance(store', r.balance_id, FALSE) = 404
             /\ \A t \in TriplesOfId(store, r.balance_id) : BetweenNotFound(store', t)
       /\ \A t \in SeqTriples :
             (/\ store' # store
              /\ ~(r.pc = "write" /\ r.op = "post" /\ TripleOf(r) = t)
              /\ BetweenNotFound(store, t))
             => BetweenNotFound(store', t)
       /\ \A id \in BalanceIds :
             (store' # store /\ id <= nextId /\ GetBalance(store, id, FALSE) = 404)
             => GetBalance(store', id, FALSE) = 404
       /\ (/\ r.pc = "write" /\ r.op = "post" /\ BetweenNotFound(store, TripleOf(r))
           /\ procs'["p1"].status = 201)
          => /\ procs'["p1"].amount = r.amount
             /\ Cardinality(RowsOfTriple(store', TripleOf(r))) = 1
             /\ \A q \in RowsOfTriple(store', TripleOf(r)) : q.amount = r.amount]_vars

\* An edge was settled, and a create after it made the only edge there is.
C13_Witness ==
    /\ last.op = "post"
    /\ procs["p1"].pc = "done" /\ procs["p1"].status = 201
    /\ nextId = 2 /\ procs["p1"].balance_id = 2
    /\ GetBalance(store, 1, FALSE) = 404
    /\ GetBalance(store, 2, FALSE) = 200
    /\ sent[<<last.group_id, Parse(last.user_from), Parse(last.user_to)>>] = last.amount

\* The rows of the store without their amounts.
Identities(s) == {[r EXCEPT !.amount = 0] : r \in Range(s)}

\* C14: a successful amendment of edge id to x leaves the edge with amount
\* exactly x, whatever it was, the edge's id and triple as they were, and
\* every other edge unchanged.
C14_AmendReplaces ==
    [][\A p \in Procs :
          (procs[p].pc = "write" /\ procs[p].op = "put" /\ procs'[p].status = 200)
          => /\ procs'[p].amount = procs[p].amount
             /\ RowsWithId(store', procs[p].balance_id) # {}
             /\ \A q \in RowsWithId(store', procs[p].balance_id) : q.amount = procs[p].amount
             /\ Identities(store') = Identities(store)
             /\ {q \in Range(store') : q.id # procs[p].balance_id}
                   = {q \in Range(store) : q.id # procs[p].balance_id}]_vars

\* The edge had been merged to a larger amount; the amendment set it lower.
C14_Witness ==
    \E p \in Procs, q \in Procs :
        /\ procs[p].pc = "done" /\ procs[p].op = "put" /\ procs[p].status = 200
        /\ procs[q].pc = "done" /\ procs[q].op = "post" /\ procs[q].status = 201
        /\ procs[q].balance_id = procs[p].balance_id
        /\ procs[q].amount > procs[p].amount
        /\ \E r \in RowsWithId(store, procs[p].balance_id) : r.amount = procs[p].amount

\* C15: an amendment with amount <= 0 is answered 400 whether or not the id
\* has an edge; one with amount > 0 for an id without an edge is answered
\* 404; the store is after either what it was before.
C15_InvalidAmendRejected ==
    [][(procs["p1"].pc # "write" /\ last'.op = "put")
       => /\ last'.amount <= 0
             => /\ procs'["p1"].pc = "done"
                /\ procs'["p1"].status = 400
                /\ store' = store
          /\ (last'.amount > 0 /\ RowsWithId(store, last'.balance_id) = {})
             => /\ procs'["p1"].pc = "done"
                /\ procs'["p1"].status = 404
                /\ store' = store]_vars

C15_Witness ==
    /\ last.op = "put"
    /\ last.amount <= 0
    /\ procs["p1"].pc = "done" /\ procs["p1"].op = "put" /\ procs["p1"].status = 400
    /\ RowsWithId(store, last.balance_id) # {}

\* C17: when the write of a create fails, the request is answered 500, no
\* further write is attempted for it, and the store holds the edges and
\* amounts it held before.
C17_FailedWriteChangesNothing ==
    [][\A p \in Procs :
          (procs[p].pc = "write" /\ procs[p].op = "post" /\ procs'[p].status = 500)
          => /\ procs'[p].pc = "done"
             /\ store' = store
             /\ nextId' = nextId]_vars

C17_Witness ==
    \E p \in Procs, q \in Procs :
        /\ procs[p].pc = "done" /\ procs[p].op = "post" /\ procs[p].status = 500
        /\ procs[q].pc = "done" /\ procs[q].op = "post" /\ procs[q].status = 201
        /\ Len(store) = 1 /\ nextId = 1
        /\ \A r \in Range(store) : r.amount = procs[q].amount

\* C18: while an edge exists its id, group and users do not change; an edge
\* appears only by the insert of a create and disappears only by the delete
\* of a settle.
C18_IdentityStable ==
    [][/\ \A r \in Range(store), q \in Range(store') :
             r.id = q.id => [r EXCEPT !.amount = 0] = [q EXCEPT !.amount = 0]
       /\ \A q \in Range(store') :
             RowsWithId(store, q.id) = {}
             => \E p \in Procs :
                   /\ procs[p].pc = "write" /\ procs[p].op = "post"
                   /\ procs[p].existing = NoRow
                   /\ procs'[p].status = 201 /\ procs'[p].balance_id = q.id
       /\ \A r \in Range(store) :
             RowsWithId(store', r.id) = {}
             => \E p \in Procs :
                   /\ procs[p].pc = "write" /\ procs[p].op = "settle"
                   /\ procs[p].balance_id = r.id
                   /\ procs'[p].status = 204]_vars

\* One edge was settled; the other was merged and is still there.
C18_Witness ==
    \E p \in Procs, q \in Procs :
        /\ procs[p].pc = "done" /\ procs[p].op = "settle" /\ procs[p].status = 204
        /\ procs[q].pc = "done" /\ procs[q].op = "post" /\ procs[q].status = 201
        /\ procs[q].amount > MaxAmount
        /\ nextId = 2 /\ Len(store) = 1
        /\ \E r \in RowsWithId(store, procs[q].balance_id) : r.amount = procs[q].amount

\* C16: when the store read fails, the total is zero, the lists are empty
\* and the summary holds no edge.
C16_FailedReadsGiveNothing ==
    out.op # "none" /\ out.fail
    => /\ out.op = "total" => out.net_balance = 0
       /\ out.op = "summary"
             => /\ out.summary.total_balances = 0
                /\ out.summary.raw_balances = <<>>
                /\ DOMAIN out.summary.user_net_balances = {}
       /\ out.op \in {"group_balances", "user_balances", "all_user_balances"}
             => out.balances = <<>>

\* The read failed for a user whose credits and debts do not cancel.
C16_Witness ==
    /\ out.op = "total" /\ out.fail
    /\ out.net_balance = 0
    /\ CreditsMinusDebts(store, out.group_id, Parse(out.user_id)) # 0

\* C19: without self-debt edges, the list of the user's balances in a group
\* holds every edge of the group from or to the user exactly once, and no
\* other edge.
C19_UserBalancesExact ==
    (/\ out.op = "user_balances" /\ ~out.fail /\ Quiet
     /\ \A r \in Range(store) : r.user_from # r.user_to)
    => /\ \A i \in 1..Len(out.balances), j \in 1..Len(out.balances) :
             out.balances[i] = out.balances[j] => i = j
       /\ Range(out.balances)
             = {r \in Range(store) :
                   /\ r.group_id = out.group_id
                   /\ Parse(out.user_id) \in {r.user_from, r.user_to}}

C19_Witness ==
    /\ out.op = "user_balances" /\ ~out.fail /\ Quiet
    /\ \A r \in Range(store) : r.user_from # r.user_to
    /\ Len(store) > Len(out.balances)
    /\ \E i \in 1..Len(out.balances) : out.balances[i].user_from = Parse(out.user_id)
    /\ \E i \in 1..Len(out.balances) : out.balances[i].user_to = Parse(out.user_id)

\* C20: the list of all balances of a user holds at most limit edges, each
\* from or to the user, latest updated first across the edges the user owes
\* and the edges the user is owed.
C20_AllUserBalancesPage ==
    out.op = "all_user_balances"
    => /\ Len(out.balances) <= out.limit
       /\ \A i \in 1..Len(out.balances) :
             Parse(out.user_id) \in {out.balances[i].user_from, out.balances[i].user_to}
       /\ Quiet
          => /\ \A i \in 1..Len(out.balances) : out.balances[i] \in Range(store)
             /\ \A i \in 1..Len(out.balances), j \in 1..Len(out.balances) :
                   i < j => Pos(store, out.balances[i].id) <= Pos(store, out.balances[j].id)

\* An edge the user is owed comes before an edge the user owes.
C20_Witness ==
    /\ out.op = "all_user_balances" /\ ~out.fail /\ Quiet
    /\ Len(out.balances) = out.limit /\ out.limit > 1
    /\ out.balances[1].user_to = Parse(out.user_id)
    /\ out.balances[2].user_from = Parse(out.user_id)

\* C22: the status of GET /group/{group_id}/user/{user_id}/total is decided
\* by the sign of the net balance it reports: owed_money above zero,
\* owes_money below zero, settled at zero; so a user whose credits and debts
\* cancel and a user with no edge in the group are both reported settled.
C22_StatusFollowsNet ==
    out.op = "total" =>
        /\ out.net_balance > 0 <=> out.status = "owed_money"
        /\ out.net_balance < 0 <=> out.status = "owes_money"
        /\ out.net_balance = 0 <=> out.status = "settled"
        /\ (/\ Quiet
            /\ OrderedRows(store, {out.group_id}, {Parse(out.user_id)}, AnyUser(store)) = <<>>
            /\ OrderedRows(store, {out.group_id}, AnyUser(store), {Parse(out.user_id)}) = <<>>)
           => out.status = "settled"

\* A user who owes 1 and is owed 1 in the group is reported settled.
C22_Witness ==
    /\ out.op = "total" /\ ~out.fail /\ Quiet /\ out.user_id[2] = "canon"
    /\ OrderedRows(store, {out.group_id}, {Parse(out.user_id)}, AnyUser(store)) # <<>>
    /\ OrderedRows(store, {out.group_id}, AnyUser(store), {Parse(out.user_id)}) # <<>>
    /\ out.net_balance = 0
    /\ out.status = "settled"

\* The write of slot p comes late: it is the update of a create whose lookup
\* found an edge, or of an amendment whose existence check found it, and the
\* edge has been settled since.
LateWrite(p) ==
    LET r == procs[p] IN
    /\ r.pc = "write"
    /\ \/ r.op = "post" /\ r.existing # NoRow /\ RowsWithId(store, r.existing.id) = {}
       \/ r.op = "put" /\ RowsWithId(store, r.balance_id) = {}

LateId(p) == IF procs[p].op = "post" THEN procs[p].existing.id ELSE procs[p].balance_id

\* C27: when an edge is settled between the lookup and the write of a create
\* (update branch) or of an amendment of that edge, the late write changes
\* no row and adds none: the store is after it what it was before it, no
\* edge with that id exists, and the late request is answered 500.  An edge
\* of the triple exists afterwards only if it existed before the late write.
C27_LateWriteAffectsNothing ==
    [][\A p \in Procs :
          (LateWrite(p) /\ procs'[p] # procs[p])
          => /\ store' = store /\ nextId' = nextId
             /\ RowsWithId(store', LateId(p)) = {}
             /\ procs'[p].pc = "done" /\ procs'[p].status = 500]_vars

\* A create found the edge, a settle removed it, the create was answered 500
\* and the store is empty.
C27_Witness ==
    \E p \in Procs, q \in Procs :
        /\ procs[p].pc = "done" /\ procs[p].op = "post" /\ procs[p].status = 500
        /\ procs[q].pc = "done" /\ procs[q].op = "settle" /\ procs[q].status = 204
        /\ nextId = 1 /\ store = <<>>

\* C27 as first stated, where the store never held two edges at once (the
\* slot that settled edge 1 went on to create edge 2): after the late write
\* of a create no edge of its triple exists either.
C27_NoEdgeOfTripleAfterwards ==
    [][\A p \in Procs :
          (/\ LateWrite(p) /\ procs[p].op = "post" /\ procs'[p] # procs[p]
           /\ procs[p].user_from # procs[p].user_to
           /\ nextId = 2 /\ Len(store) = 1
           /\ \E q \in Procs \ {p} :
                 /\ procs[q].pc = "done" /\ procs[q].op = "post"
                 /\ procs[q].status = 201 /\ procs[q].balance_id = 2)
          => /\ RowsWithId(store', LateId(p)) = {}
             /\ RowsOfTriple(store', TripleOf(procs[p])) = {}
             /\ procs'[p].status = 500]_vars

\* The edges from or to user u, latest updated first.
EdgesOfUser(s, u) ==
    LET Involves(r) == u \in {r.user_from, r.user_to} IN SelectSeq(s, Involves)

\* A half-query of the request answered in out has more matching rows than
\* the limit lets it fetch.
HalfHasMore ==
    \/ Len(OrderedRows(store, AnyGroup(store), {Parse(out.user_id)}, AnyUser(store)))
          > out.limit
    \/ Len(OrderedRows(store, AnyGroup(store), AnyUser(store), {Parse(out.user_id)}))
          > out.limit

\* C21: the cut of the merged list never drops an edge that ranks higher by
\* last_updated than an edge it keeps; and with offset 0 every edge of the
\* user that is missing from the response ranks lower than every edge in
\* it, also when a half-query has more matching rows than it fetched.
C21_CutKeepsTheLatest ==
    (out.op = "all_user_balances" /\ ~out.fail /\ Quiet)
    => LET merged == MergedUserBalances(store, store, {}, out.user_id, out.limit, out.offset) IN
       /\ \A i \in 1..Len(merged) :
             i > Len(out.balances)
             => \A j \in 1..Len(out.balances) :
                   Pos(store, merged[i].id) >= Pos(store, out.balances[j].id)
       /\ out.offset = 0
          => \A r \in Range(EdgesOfUser(store, Parse(out.user_id))) \ Range(out.balances) :
                \A j \in 1..Len(out.balances) :
                   Pos(store, r.id) > Pos(store, out.balances[j].id)

\* The half-query of the edges the user owes had more rows than the limit,
\* the response is full, it keeps an edge of the other half and an edge the
\* user owes is missing from it.
C21_Witness ==
    /\ out.op = "all_user_balances" /\ ~out.fail /\ Quiet /\ out.offset = 0
    /\ \A r \in Range(store) : r.user_from # r.user_to
    /\ Len(OrderedRows(store, AnyGroup(store), {Parse(out.user_id)}, AnyUser(store)))
          > out.limit
    /\ Len(out.balances) = out.limit
    /\ \E j \in 1..Len(out.balances) : out.balances[j].user_to = Parse(out.user_id)
    /\ \E r \in Range(store) \ Range(out.balances) : r.user_from = Parse(out.user_id)

\* C21 as first stated: when a half-query has more matching rows than it
\* fetched, the cut drops an edge of the merged list that ranks higher than
\* an edge it keeps from the other half.
C21_CutDropsALaterEdge ==
    (out.op = "all_user_balances" /\ ~out.fail /\ Quiet /\ out.offset = 0 /\ HalfHasMore)
    => LET merged == MergedUserBalances(store, store, {}, out.user_id, out.limit, out.offset) IN
       \E i \in 1..Len(merged), j \in 1..Len(out.balances) :
          /\ i > Len(out.balances)
          /\ Pos(store, merged[i].id) < Pos(store, out.balances[j].id)

\* C26: with offset 0 the response of get_all_user_balances is the
\* min(limit, n) latest updated of the n edges from or to the user, latest
\* first.
C26_LatestEdgesOfUser ==
    (out.op = "all_user_balances" /\ ~out.fail /\ Quiet /\ out.offset = 0)
    => out.balances = CutAtLimit(EdgesOfUser(store, Parse(out.user_id)), out.limit)

\* C26 where no edge goes from a user to the same user.
C26_LatestEdgesWithoutSelfDebt ==
    (\A r \in Range(store) : r.user_from # r.user_to) => C26_LatestEdgesOfUser

\* C28: when the lookup of a create fails with a store error while an edge
\* of the triple exists, the create is answered with a failure and the store
\* is left as it is: no second edge of the triple is inserted.
C28_FailedLookupFailsCreate ==
    [][(/\ procs["p1"].pc = "write" /\ procs'["p1"].pc = "done"
        /\ last.lookup_failed
        /\ RowsOfTriple(store, TripleOf(procs["p1"])) # {})
       => /\ procs'["p1"].status = 500
          /\ store' = store]_vars

\* C28 where the lookup did not fail: no create inserts an edge for a triple
\* that has one.
C28_LookupThatWorksMerges ==
    [][(/\ procs["p1"].pc = "write" /\ procs'["p1"].pc = "done"
        /\ ~last.lookup_failed
        /\ RowsOfTriple(store, TripleOf(procs["p1"])) # {})
       => /\ procs'["p1"].status = 201
          /\ Len(store') = Len(store)]_vars

\* C23: at most one active membership row per group and user.
C23_OneActiveMembership ==
    \A i \in DOMAIN members, j \in DOMAIN members :
        (/\ members[i].is_active /\ members[j].is_active
         /\ members[i].group_id = members[j].group_id
         /\ members[i].user_id = members[j].user_id)
        => i = j

\* C24: every stored role is one of member, admin, owner.
C24_RolesValid ==
    \A i \in DOMAIN members : members[i].role \in ValidRoles

\* C24 for the role updates alone: a role update never puts a role other
\* than member, admin, owner into a row.
C24_UpdateStoresValidRole ==
    [][\A p \in Procs :
          (procs[p].op = "update_member_role" /\ procs'[p] # procs[p])
          => \A i \in DOMAIN members' :
                members'[i].role \in ValidRoles \/ members'[i] = members[i]]_vars

\* Slot p takes a GET, role update or DELETE addressed to the id of a row
\* that is not active.
AddressedInactive(p) ==
    /\ procs[p].pc = "idle" /\ procs'[p].pc # "idle"
    /\ procs'[p].op \in {"get_member", "update_member_role", "remove_member"}
    /\ \E i \in DOMAIN members :
          members[i].id = procs'[p].member_id /\ ~members[i].is_active

\* C29: a GET, role update or DELETE that arrives for the id of a row that
\* is not active is answered 404 and changes nothing; a row that is not
\* active is never changed by any statement of any request.
C29_InactiveIsGone ==
    [][/\ \A p \in Procs :
             AddressedInactive(p)
             => /\ procs'[p].pc = "done" /\ procs'[p].status = 404
                /\ members' = members
       /\ \A i \in DOMAIN members :
             ~members[i].is_active => (i \in DOMAIN members' /\ members'[i] = members[i])]_vars

\* A member was added and removed, and a later role update addressed to its
\* id was answered 404, while another membership is active.
C29_Witness ==
    \E p \in Procs :
        /\ procs[p].pc = "done" /\ procs[p].op = "update_member_role"
        /\ procs[p].status = 404
        /\ \E i \in DOMAIN members :
              members[i].id = procs[p].member_id /\ ~members[i].is_active
        /\ \E i \in DOMAIN members : members[i].is_active

\* C25: no stored settlement is paid by a user to the same user.
C25_NoSelfSettlement ==
    \A i \in DOMAIN settlements : settlements[i].from_user # settlements[i].to_user

\* C30: PUT /users/{user_id} is answered 400 for its email only when the
\* email is that of another user; with the user's own current email it is
\* not rejected.
C30_OwnEmailAccepted ==
    [][\A p \in Procs :
          (/\ procs[p].pc = "check" /\ procs'[p].pc = "done"
           /\ procs'[p].op = "update_user" /\ procs'[p].status = 400)
          => \E r \in Range(users) :
                r.email = procs[p].email /\ r.id # Parse(procs[p].user_id)]_vars

====
